---- MODULE Spec2Model ----
(***************************************************************************)
(* A model of geocode_check.py: the property geocode checker.              *)
(*                                                                         *)
(* Text that the program converts (addresses, ids, column names, location  *)
(* types) is a sequence of one-character strings, so that strip/split/     *)
(* join/upper/lower are computed rather than assumed.  Optional values are *)
(* tuples of length 0 (None) or 1.  Numbers that may be None, NaN or an    *)
(* ill-typed JSON value are records [t, v].  Coordinates are whole         *)
(* degrees; distances and the tolerance are millimetres.                   *)
(***************************************************************************)
EXTENDS Integers, Sequences

VARIABLES
    pc,             \* "init" | "rows" | "done" | "crashed"
    exit_code,      \* process exit status once pc is "done"/"crashed", else -1
    args,           \* parsed command line (parse_args)
    api_key,        \* GOOGLE_MAPS_API_KEY present in the environment
    header,         \* reader.fieldnames: <<>> for None, else <<list>>
    disk,           \* the cache file on disk
    cache_entries,  \* main's cache_entries: normalized address -> entry
    cnt,            \* main's counters, by their source names
    mismatches,     \* main's mismatches list (rows of the mismatch output)
    stderr,         \* diagnostic lines printed to sys.stderr, in order
    network_calls,  \* number of geocode_address calls issued
    sleeps,         \* number of time.sleep calls made
    summary,        \* <<>> until the summary is printed, then <<record>>
    last,           \* what the latest loop iteration did
    puts,           \* the (address, result) pairs stored in the cache by this run
    cls             \* classifier harness: argument and returned reason

vars == <<pc, exit_code, args, api_key, header, disk, cache_entries, cnt,
          mismatches, stderr, network_calls, sleeps, summary, last, puts, cls>>

-----------------------------------------------------------------------------
(* Bounds of the model.                                                    *)

MaxRows == 2

-----------------------------------------------------------------------------
(* Text.                                                                   *)

S(str) ==
    CASE str = "" -> <<>>
      [] str = "7" -> <<"7">>
      [] str = "?" -> <<"?">>
      [] str = "id" -> <<"i", "d">>
      [] str = "ID" -> <<"I", "D">>
      [] str = "address" -> <<"a", "d", "d", "r", "e", "s", "s">>
      [] str = "Address" -> <<"A", "d", "d", "r", "e", "s", "s">>
      [] str = "latitude" -> <<"l", "a", "t", "i", "t", "u", "d", "e">>
      [] str = "LATITUDE" -> <<"L", "A", "T", "I", "T", "U", "D", "E">>
      [] str = "longitude" -> <<"l", "o", "n", "g", "i", "t", "u", "d", "e">>
      [] str = "Longitude" -> <<"L", "o", "n", "g", "i", "t", "u", "d", "e">>
      [] str = "ROOFTOP" -> <<"R", "O", "O", "F", "T", "O", "P">>
      [] str = "rooftop" -> <<"r", "o", "o", "f", "t", "o", "p">>
      [] str = "Rooftop" -> <<"R", "o", "o", "f", "t", "o", "p">>
      [] str = "ROOF" -> <<"R", "O", "O", "F">>
      [] str = "APPROXIMATE" -> <<"A", "P", "P", "R", "O", "X", "I", "M", "A", "T", "E">>
      [] str = "RANGE_INTERPOLATED" ->
            <<"R", "A", "N", "G", "E", "_", "I", "N", "T", "E", "R", "P", "O", "L", "A", "T", "E", "D">>
      [] str = "a b" -> <<"a", " ", "b">>
      [] str = "a  b" -> <<"a", " ", " ", "b">>
      [] str = " a\tb " -> <<" ", "a", "\t", "b", " ">>
      [] str = "  " -> <<" ", " ">>

UpperLetters ==
    <<"A", "B", "C", "D", "E", "F", "G", "H", "I", "J", "K", "L", "M",
      "N", "O", "P", "Q", "R", "S", "T", "U", "V", "W", "X", "Y", "Z">>

LowerLetters ==
    <<"a", "b", "c", "d", "e", "f", "g", "h", "i", "j", "k", "l", "m",
      "n", "o", "p", "q", "r", "s", "t", "u", "v", "w", "x", "y", "z">>

Whitespace == {" ", "\t"}

UpperChar(ch) ==
    IF \E i \in DOMAIN LowerLetters : LowerLetters[i] = ch
    THEN UpperLetters[CHOOSE i \in DOMAIN LowerLetters : LowerLetters[i] = ch]
    ELSE ch

LowerChar(ch) ==
    IF \E i \in DOMAIN UpperLetters : UpperLetters[i] = ch
    THEN LowerLetters[CHOOSE i \in DOMAIN UpperLetters : UpperLetters[i] = ch]
    ELSE ch

\* str.upper() and str.lower()
Upper(s) == [i \in DOMAIN s |-> UpperChar(s[i])]

Lower(s) == [i \in DOMAIN s |-> LowerChar(s[i])]

RECURSIVE LStrip(_)
LStrip(s) ==
    IF s # <<>> /\ Head(s) \in Whitespace THEN LStrip(Tail(s)) ELSE s

RECURSIVE RStrip(_)
RStrip(s) ==
    IF s # <<>> /\ s[Len(s)] \in Whitespace
    THEN RStrip(SubSeq(s, 1, Len(s) - 1))
    ELSE s

\* str.strip()
Strip(s) == RStrip(LStrip(s))

\* str.split() with no separator: the maximal runs of non-whitespace
RECURSIVE SplitFrom(_, _, _)
SplitFrom(s, word, acc) ==
    IF s = <<>>
    THEN IF word = <<>> THEN acc ELSE Append(acc, word)
    ELSE IF Head(s) \in Whitespace
         THEN SplitFrom(Tail(s), <<>>, IF word = <<>> THEN acc ELSE Append(acc, word))
         ELSE SplitFrom(Tail(s), Append(word, Head(s)), acc)

Split(s) == SplitFrom(s, <<>>, <<>>)

\* " ".join(words)
RECURSIVE JoinSpace(_)
JoinSpace(words) ==
    IF words = <<>> THEN <<>>
    ELSE IF Len(words) = 1 THEN words[1]
    ELSE words[1] \o <<" ">> \o JoinSpace(Tail(words))

NormalizeNoCollapse(address) == Strip(address)

_normalize_address(address) == JoinSpace(Split(Strip(address)))

-----------------------------------------------------------------------------
(* Values.                                                                 *)

None == <<>>

Some(x) == <<x>>

NoneN == [t |-> "none", v |-> 0]

NaN == [t |-> "nan", v |-> 0]

\* a JSON string where a number is expected
StrN == [t |-> "str", v |-> 0]

Num(x) == [t |-> "num", v |-> x]

\* A CSV cell or JSON scalar handed to _parse_float, by what float() makes of it.
CellNone == [k |-> "none", v |-> 0]

CellText(kind) == [k |-> kind, v |-> 0]

CellNum(x) == [k |-> "num", v |-> x]

_parse_float(value) ==
    IF value.k = "none" THEN NoneN
    ELSE IF value.k \in {"empty", "blank"} THEN NoneN
    ELSE IF value.k = "junk" THEN NoneN
    ELSE IF value.k = "nan" THEN NaN
    ELSE Num(value.v)

LatMax == 90

LngMax == 180

\* the comparisons of _is_valid_lat_lng raise TypeError on a str operand
IsValidRaises(lat, lng) ==
    /\ lat.t # "none"
    /\ lng.t # "none"
    /\ \/ lat.t = "str"
       \/ lat.t = "num" /\ -LatMax <= lat.v /\ lat.v <= LatMax /\ lng.t = "str"

IsValidLatOnly(lat, lng) ==
    /\ lat.t = "num"
    /\ -LatMax <= lat.v /\ lat.v <= LatMax

_is_valid_lat_lng(lat, lng) ==
    /\ lat.t = "num"
    /\ lng.t = "num"
    /\ -LatMax <= lat.v /\ lat.v <= LatMax
    /\ -LngMax <= lng.v /\ lng.v <= LngMax

\* r * radians(1), in millimetres: the haversine distance of two points one
\* degree of latitude apart on one meridian
MillimetresPerDegree == 111194927

Abs(x) == IF x < 0 THEN -x ELSE x

\* _haversine_meters on points of one meridian (lon1 = lon2), in millimetres
_haversine_meters(lat1, lon1, lat2, lon2) ==
    Abs(lat2 - lat1) * MillimetresPerDegree

-----------------------------------------------------------------------------
(* Provider client.                                                        *)

GeocodeResult(status, formatted_address, latitude, longitude, result_count, partial_match, location_type, error_message) ==
    [status |-> status,
     formatted_address |-> formatted_address,
     latitude |-> latitude,
     longitude |-> longitude,
     result_count |-> result_count,
     partial_match |-> partial_match,
     location_type |-> location_type,
     error_message |-> error_message]

\* The decoded payload `raw` of one provider response.  fail: urlopen or
\* json.loads raised.  The first result's fields are those of results[0].
Payload(status, error_message, results_is_list, n_results, formatted_address, partial_match, geometry, location_type, location, lat, lng) ==
    [fail |-> FALSE,
     status |-> status,
     error_message |-> error_message,
     results_is_list |-> results_is_list,
     n_results |-> n_results,
     formatted_address |-> formatted_address,
     partial_match |-> partial_match,
     geometry |-> geometry,
     location_type |-> location_type,
     location |-> location,
     lat |-> lat,
     lng |-> lng]

TransportError ==
    [Payload("", None, FALSE, 0, None, FALSE, FALSE, None, FALSE, CellNone, CellNone)
        EXCEPT !.fail = TRUE]

ResultCount(raw) == IF raw.results_is_list THEN raw.n_results ELSE 0

GeocodeAddressKeepsOk(raw) ==
    IF raw.status # "OK"
    THEN GeocodeResult(raw.status, None, NoneN, NoneN, ResultCount(raw), FALSE,
                       None, raw.error_message)
    ELSE GeocodeResult(raw.status, raw.formatted_address,
                       IF raw.geometry /\ raw.location THEN _parse_float(raw.lat) ELSE NoneN,
                       IF raw.geometry /\ raw.location THEN _parse_float(raw.lng) ELSE NoneN,
                       ResultCount(raw), raw.partial_match,
                       IF raw.geometry THEN raw.location_type ELSE None,
                       raw.error_message)

\* geocode_address after the payload is decoded (raw.fail = FALSE)
geocode_address(raw) ==
    IF raw.status # "OK"
    THEN GeocodeResult(raw.status, None, NoneN, NoneN, ResultCount(raw), FALSE,
                       None, raw.error_message)
    ELSE IF ResultCount(raw) = 0
    THEN GeocodeResult("NO_RESULTS", None, NoneN, NoneN, 0, FALSE, None,
                       raw.error_message)
    ELSE GeocodeResult(raw.status, raw.formatted_address,
                       IF raw.geometry /\ raw.location THEN _parse_float(raw.lat) ELSE NoneN,
                       IF raw.geometry /\ raw.location THEN _parse_float(raw.lng) ELSE NoneN,
                       ResultCount(raw), raw.partial_match,
                       IF raw.geometry THEN raw.location_type ELSE None,
                       raw.error_message)

-----------------------------------------------------------------------------
(* Ambiguity classifier.                                                   *)

\* result.location_type or ""
OrEmpty(opt) == IF opt = None THEN <<>> ELSE opt[1]

AmbiguousReasonCaseSensitive(result) ==
    IF result.status # "OK" THEN None
    ELSE IF result.result_count # 1 THEN Some("result_count")
    ELSE IF result.partial_match THEN Some("partial_match")
    ELSE IF OrEmpty(result.location_type) # S("ROOFTOP") THEN Some("location_type")
    ELSE None

\* None, or the condition the reason names
_ambiguous_reason(result) ==
    IF result.status # "OK" THEN None
    ELSE IF result.result_count # 1 THEN Some("result_count")
    ELSE IF result.partial_match THEN Some("partial_match")
    ELSE IF Upper(OrEmpty(result.location_type)) # S("ROOFTOP") THEN Some("location_type")
    ELSE None

-----------------------------------------------------------------------------
(* Result cache.                                                           *)

CACHE_VERSION == 1

EmptyEntries == [k \in {} |-> 0]

Put(entries, key, entry) ==
    [k \in DOMAIN entries \cup {key} |-> IF k = key THEN entry ELSE entries[k]]

\* A JSON value stored under a key of "entries".  is_dict = FALSE: not an
\* object.  result_count is [t, v]: int() raises on anything but a number.
CacheEntry(status, formatted_address, latitude, longitude, result_count, partial_match, location_type, error_message) ==
    [is_dict |-> TRUE,
     status |-> status,
     formatted_address |-> formatted_address,
     latitude |-> latitude,
     longitude |-> longitude,
     result_count |-> result_count,
     partial_match |-> partial_match,
     location_type |-> location_type,
     error_message |-> error_message]

_geocode_result_to_cache_entry(result) ==
    CacheEntry(result.status, result.formatted_address, result.latitude,
               result.longitude, Num(result.result_count), result.partial_match,
               result.location_type, result.error_message)

\* None, or Some(result)
_cache_entry_to_geocode_result(entry) ==
    IF ~entry.is_dict THEN None
    ELSE IF entry.result_count.t # "num" THEN None
    ELSE Some(GeocodeResult(entry.status, entry.formatted_address, entry.latitude,
                            entry.longitude, entry.result_count.v,
                            entry.partial_match, entry.location_type,
                            entry.error_message))

\* The cache file: absent, not JSON, JSON that is no object, or an object
\* with a "version" and an "entries" value.
CacheFile(exists, parsable, is_dict, version, entries_is_dict, entries) ==
    [exists |-> exists,
     parsable |-> parsable,
     is_dict |-> is_dict,
     version |-> version,
     entries_is_dict |-> entries_is_dict,
     entries |-> entries]

FreshCache == [version |-> CACHE_VERSION, entries_is_dict |-> TRUE, entries |-> EmptyEntries]

_load_cache(file) ==
    IF ~file.exists THEN FreshCache
    ELSE IF ~file.parsable THEN FreshCache
    ELSE IF ~file.is_dict THEN FreshCache
    ELSE IF file.version # CACHE_VERSION THEN FreshCache
    ELSE IF ~file.entries_is_dict THEN FreshCache
    ELSE [version |-> file.version, entries_is_dict |-> TRUE, entries |-> file.entries]

-----------------------------------------------------------------------------
(* Column resolution.                                                      *)

\* None when SystemExit is raised, else Some(resolved name)
_required_column(fieldnames, requested) ==
    IF \E i \in DOMAIN fieldnames : fieldnames[i] = requested
    THEN Some(requested)
    ELSE LET hits == {i \in DOMAIN fieldnames : Lower(fieldnames[i]) = Lower(requested)}
         IN  IF hits # {}
             THEN Some(fieldnames[CHOOSE i \in hits : \A j \in hits : j <= i])
             ELSE None

-----------------------------------------------------------------------------
(* Inputs.                                                                 *)

Row(id, address, latitude, longitude) ==
    [id |-> id, address |-> address, latitude |-> latitude, longitude |-> longitude]

\* (id, address, latitude, longitude) cells of the input rows
Rows ==
    {Row(S("7"), S("a b"), CellNum(40), CellNum(-74)),
     Row(S("7"), S(" a\tb "), CellNum(40), CellNum(-74)),
     Row(S("  "), S("a b"), CellNum(41), CellNum(-74)),
     Row(S("7"), S(""), CellNum(40), CellNum(-74)),
     Row(S("7"), S("  "), CellText("empty"), CellNum(-74)),
     Row(S("7"), S("a b"), CellText("empty"), CellNum(-74)),
     Row(S("7"), S(" a\tb "), CellNum(40), CellNum(181)),
     Row(S("  "), S("a b"), CellText("nan"), CellText("junk"))}

OneResult(partial_match, location_type, lat) ==
    Payload("OK", None, TRUE, 1, Some("1 Main St"), partial_match, TRUE,
            location_type, TRUE, lat, CellNum(-74))

Responses ==
    {TransportError,
     Payload("OK", None, TRUE, 0, None, FALSE, FALSE, None, FALSE, CellNone, CellNone),
     Payload("REQUEST_DENIED", Some("denied"), FALSE, 0, None, FALSE, FALSE, None,
             FALSE, CellNone, CellNone),
     OneResult(FALSE, Some(S("ROOFTOP")), CellNum(40)),
     OneResult(FALSE, Some(S("rooftop")), CellNum(41)),
     OneResult(FALSE, Some(S("ROOFTOP")), CellNum(95)),
     [OneResult(FALSE, Some(S("ROOFTOP")), CellNum(40)) EXCEPT !.n_results = 2]}

GoodEntry ==
    CacheEntry("OK", Some("1 Main St"), Num(41), Num(-74), Num(1), FALSE,
               Some(S("ROOFTOP")), None)

EntriesOf(entry) == [k \in {S("a b")} |-> entry]

CacheFiles ==
    {CacheFile(FALSE, FALSE, FALSE, 0, FALSE, EmptyEntries),
     CacheFile(TRUE, FALSE, FALSE, 0, FALSE, EmptyEntries),
     CacheFile(TRUE, TRUE, FALSE, 0, FALSE, EmptyEntries),
     CacheFile(TRUE, TRUE, TRUE, 2, TRUE, EntriesOf(GoodEntry)),
     CacheFile(TRUE, TRUE, TRUE, CACHE_VERSION, FALSE, EmptyEntries),
     CacheFile(TRUE, TRUE, TRUE, CACHE_VERSION, TRUE, EntriesOf(GoodEntry)),
     CacheFile(TRUE, TRUE, TRUE, CACHE_VERSION, TRUE,
               EntriesOf([GoodEntry EXCEPT !.is_dict = FALSE])),
     CacheFile(TRUE, TRUE, TRUE, CACHE_VERSION, TRUE,
               EntriesOf([GoodEntry EXCEPT !.result_count = StrN])),
     CacheFile(TRUE, TRUE, TRUE, CACHE_VERSION, TRUE,
               EntriesOf([GoodEntry EXCEPT !.latitude = StrN]))}

Headers ==
    {None,
     Some(<<S("id"), S("Address"), S("LATITUDE"), S("Longitude")>>),
     Some(<<S("id"), S("address"), S("latitude")>>),
     Some(<<S("address"), S("latitude"), S("longitude")>>)}

\* tolerance_meters in millimetres, sleep_ms, max_rows (None or Some(n))
Args ==
    [tolerance_meters : {-1000, 0, 200000000},
     dry_run : BOOLEAN,
     cache_file : BOOLEAN,
     sleep_ms : {0, 100},
     max_rows : {None, Some(1)}]

-----------------------------------------------------------------------------
(* Initial state: the process has parsed its arguments.                    *)

ZeroCounters ==
    [total_rows |-> 0, checked_rows |-> 0, matched |-> 0, mismatched |-> 0,
     invalid_coord_mismatches |-> 0, skipped_missing_address |-> 0,
     skipped_ambiguous |-> 0, skipped_geocode_failure |-> 0,
     cache_hits |-> 0, cache_misses |-> 0]

NoResult == GeocodeResult("", None, NoneN, NoneN, 0, FALSE, None, None)

NoIteration ==
    [outcome |-> "", row |-> Row(<<>>, <<>>, CellNone, CellNone), tag |-> <<>>,
     address |-> <<>>, looked_up |-> FALSE, hit |-> FALSE, live |-> FALSE,
     raised |-> FALSE, ok_zero |-> FALSE, result |-> NoResult, slept |-> FALSE]

NoClassification == [arg |-> NoResult, ret |-> None, called |-> FALSE]

Init ==
    /\ pc = "init"
    /\ exit_code = -1
    /\ args \in Args
    /\ api_key \in BOOLEAN
    /\ header \in Headers
    /\ disk \in CacheFiles
    /\ (~args.cache_file => ~disk.exists)
    /\ cache_entries = EmptyEntries
    /\ cnt = ZeroCounters
    /\ mismatches = <<>>
    /\ stderr = <<>>
    /\ network_calls = 0
    /\ sleeps = 0
    /\ summary = None
    /\ last = NoIteration
    /\ puts = {}
    /\ cls = NoClassification

-----------------------------------------------------------------------------
(* main, up to the row loop.                                               *)

Line(tag, reason, detail) == [tag |-> tag, reason |-> reason, detail |-> detail]

\* the exit status of `raise SystemExit(<str>)`: the message is printed and
\* the interpreter exits with status 1
SystemExitMessageStatus == 1

\* the exit status of an uncaught exception
UncaughtExceptionStatus == 1

RequiredColumns == <<S("id"), S("address"), S("latitude"), S("longitude")>>

Labels == <<"id", "address", "latitude", "longitude">>

MissingColumns(fieldnames) ==
    {i \in DOMAIN RequiredColumns : _required_column(fieldnames, RequiredColumns[i]) = None}

Exit(status, lines) ==
    /\ pc' = "done"
    /\ exit_code' = status
    /\ stderr' = stderr \o lines

Startup ==
    /\ pc = "init"
    /\ UNCHANGED <<args, api_key, header, disk, cnt, mismatches, network_calls,
                   sleeps, summary, last, puts, cls>>
    /\ IF args.tolerance_meters < 0
       THEN /\ Exit(2, <<Line(<<>>, "--tolerance-meters must be >= 0", "")>>)
            /\ UNCHANGED cache_entries
       ELSE IF ~args.dry_run /\ ~api_key
       THEN /\ Exit(2, <<Line(<<>>, "Missing GOOGLE_MAPS_API_KEY", "")>>)
            /\ UNCHANGED cache_entries
       ELSE /\ cache_entries' =
                 IF ~args.dry_run /\ args.cache_file
                 THEN _load_cache(disk).entries
                 ELSE EmptyEntries
            /\ IF header = None
               THEN Exit(2, <<Line(<<>>, "Input CSV has no header row.", "")>>)
               ELSE IF MissingColumns(header[1]) # {}
               THEN LET first == CHOOSE i \in MissingColumns(header[1]) :
                                     \A j \in MissingColumns(header[1]) : i <= j
                    IN  Exit(SystemExitMessageStatus,
                             <<Line(<<>>, "Missing required column", Labels[first])>>)
               ELSE IF args.dry_run
               THEN Exit(0, <<>>)
               ELSE /\ pc' = "rows"
                    /\ UNCHANGED <<exit_code, stderr>>

-----------------------------------------------------------------------------
(* One iteration of the row loop.                                          *)

RowTagUnknown(property_id) == S("?")

\* property_id or '?'
RowTag(property_id) == IF property_id = <<>> THEN S("?") ELSE property_id

\* geocode_with_cache(address), the provider answering raw if it is asked
geocode_with_cache(address, raw) ==
    LET key == _normalize_address(address)
        cached == IF args.cache_file /\ key \in DOMAIN cache_entries
                  THEN _cache_entry_to_geocode_result(cache_entries[key])
                  ELSE None
    IN  IF cached # None
        THEN [raised |-> FALSE, hit |-> TRUE, live |-> FALSE, result |-> cached[1],
              entries |-> cache_entries, put |-> FALSE]
        ELSE IF raw.fail
        THEN [raised |-> TRUE, hit |-> FALSE, live |-> TRUE, result |-> NoResult,
              entries |-> cache_entries, put |-> FALSE]
        ELSE [raised |-> FALSE, hit |-> FALSE, live |-> TRUE,
              result |-> geocode_address(raw),
              entries |-> IF args.cache_file
                          THEN Put(cache_entries, key,
                                   _geocode_result_to_cache_entry(geocode_address(raw)))
                          ELSE cache_entries,
              put |-> args.cache_file]

\* cache_hits += 1 on a hit, cache_misses += 1 before a live call
CountLookup(c, lk) ==
    IF lk.hit THEN [c EXCEPT !.cache_hits = @ + 1]
    ELSE [c EXCEPT !.cache_misses = @ + 1]

CountSkipAsChecked(c) == [c EXCEPT !.checked_rows = @ + 1]

CountGeocodeFailure(c) == [c EXCEPT !.skipped_geocode_failure = @ + 1]

Iteration(outcome, row, row_tag, address, lk, raw, slept) ==
    [outcome |-> outcome, row |-> row, tag |-> row_tag, address |-> address,
     looked_up |-> TRUE, hit |-> lk.hit, live |-> lk.live, raised |-> lk.raised,
     ok_zero |-> lk.live /\ ~lk.raised /\ raw.status = "OK" /\ ResultCount(raw) = 0,
     result |-> lk.result, slept |-> slept]

AfterLookup(lk, address) ==
    /\ cache_entries' = lk.entries
    /\ network_calls' = IF lk.live THEN network_calls + 1 ELSE network_calls
    /\ puts' = IF lk.put THEN puts \cup {[address |-> address, result |-> lk.result]}
               ELSE puts

MissingAddressUncounted(row, row_tag, c) ==
    /\ cnt' = c
    /\ stderr' = Append(stderr, Line(row_tag, "missing address", ""))
    /\ last' = [NoIteration EXCEPT !.outcome = "Skipped(MissingAddress)",
                                   !.row = row, !.tag = row_tag]
    /\ UNCHANGED <<pc, exit_code, mismatches, cache_entries, network_calls, sleeps, puts>>

\* lines 469-472
MissingAddress(row, row_tag, c) ==
    /\ cnt' = [c EXCEPT !.skipped_missing_address = @ + 1]
    /\ stderr' = Append(stderr, Line(row_tag, "missing address", ""))
    /\ last' = [NoIteration EXCEPT !.outcome = "Skipped(MissingAddress)",
                                   !.row = row, !.tag = row_tag]
    /\ UNCHANGED <<pc, exit_code, mismatches, cache_entries, network_calls, sleeps, puts>>

\* lines 474-503
InvalidCoordinates(row, row_tag, address, raw, c) ==
    \E lk \in {geocode_with_cache(address, raw)} :
    LET result == lk.result
        usable == /\ ~lk.raised
                  /\ result.status = "OK"
                  /\ ~IsValidRaises(result.latitude, result.longitude)
                  /\ _is_valid_lat_lng(result.latitude, result.longitude)
                  /\ _ambiguous_reason(result) = None
        output_row == [row |-> row,
                       google_latitude |-> IF usable THEN result.latitude ELSE NoneN,
                       google_longitude |-> IF usable THEN result.longitude ELSE NoneN,
                       distance_meters |-> None]
    IN  /\ cnt' = CountLookup([c EXCEPT !.invalid_coord_mismatches = @ + 1,
                                        !.mismatched = @ + 1], lk)
        /\ AfterLookup(lk, address)
        /\ mismatches' = Append(mismatches, output_row)
        /\ stderr' = Append(stderr, Line(row_tag, "invalid/missing coordinates", ""))
        /\ last' = Iteration("Mismatched(InvalidCoordinates)", row, row_tag,
                             address, lk, raw, FALSE)
        /\ UNCHANGED <<pc, exit_code, sleeps>>

\* lines 505-545
ValidCoordinates(row, row_tag, address, lat, lng, raw, c) ==
    \E lk \in {geocode_with_cache(address, raw)} :
    LET result == lk.result
        c1 == CountLookup(c, lk)
        reason == _ambiguous_reason(result)
    IN  /\ AfterLookup(lk, address)
        /\ IF lk.raised
           THEN /\ cnt' = CountGeocodeFailure(c1)
                /\ stderr' = Append(stderr, Line(row_tag, "geocode request error", ""))
                /\ last' = Iteration("Skipped(GeocodeFailure)", row, row_tag,
                                     address, lk, raw, FALSE)
                /\ UNCHANGED <<pc, exit_code, mismatches, sleeps>>
           ELSE IF result.status = "OK" /\ IsValidRaises(result.latitude, result.longitude)
           THEN /\ cnt' = c1
                /\ pc' = "crashed"
                /\ exit_code' = UncaughtExceptionStatus
                /\ last' = Iteration("Crashed", row, row_tag, address, lk, raw, FALSE)
                /\ UNCHANGED <<stderr, mismatches, sleeps>>
           ELSE IF result.status # "OK"
                   \/ ~_is_valid_lat_lng(result.latitude, result.longitude)
           THEN /\ cnt' = CountGeocodeFailure(c1)
                /\ stderr' = Append(stderr, Line(row_tag, "geocode failed", result.status))
                /\ last' = Iteration("Skipped(GeocodeFailure)", row, row_tag,
                                     address, lk, raw, FALSE)
                /\ UNCHANGED <<pc, exit_code, mismatches, sleeps>>
           ELSE IF reason # None
           THEN /\ cnt' = [c1 EXCEPT !.skipped_ambiguous = @ + 1]
                /\ stderr' = Append(stderr, Line(row_tag, "ambiguous", reason[1]))
                /\ last' = Iteration("Skipped(AmbiguousResult)", row, row_tag,
                                     address, lk, raw, FALSE)
                /\ UNCHANGED <<pc, exit_code, mismatches, sleeps>>
           ELSE LET distance_m == _haversine_meters(lat.v, lng.v, result.latitude.v,
                                                    result.longitude.v)
                    slept == args.sleep_ms > 0
                IN  /\ sleeps' = IF slept THEN sleeps + 1 ELSE sleeps
                    /\ UNCHANGED <<pc, exit_code, stderr>>
                    /\ IF distance_m <= args.tolerance_meters
                       THEN /\ cnt' = [c1 EXCEPT !.checked_rows = @ + 1,
                                                 !.matched = @ + 1]
                            /\ UNCHANGED mismatches
                            /\ last' = Iteration("Matched", row, row_tag, address,
                                                 lk, raw, slept)
                       ELSE /\ cnt' = [c1 EXCEPT !.checked_rows = @ + 1,
                                                 !.mismatched = @ + 1]
                            /\ mismatches' =
                                   Append(mismatches,
                                          [row |-> row,
                                           google_latitude |-> result.latitude,
                                           google_longitude |-> result.longitude,
                                           distance_meters |-> Some(distance_m)])
                            /\ last' = Iteration("Mismatched(DistanceExceedsTolerance)",
                                                 row, row_tag, address, lk, raw, slept)

\* the body of `for row in reader`, lines 457-545, for one row and the
\* payload the provider would answer with
ProcessRow(row, raw) ==
    /\ pc = "rows"
    /\ cnt.total_rows < MaxRows
    /\ IF args.max_rows = None THEN TRUE ELSE cnt.total_rows < args.max_rows[1]
    /\ UNCHANGED <<args, api_key, header, disk, summary, cls>>
    /\ \E address \in {Strip(row.address)} :
       LET property_id == Strip(row.id)
           lat == _parse_float(row.latitude)
           lng == _parse_float(row.longitude)
           row_tag == RowTag(property_id)
           c == [cnt EXCEPT !.total_rows = @ + 1]
       IN  IF address = <<>>
           THEN MissingAddress(row, row_tag, c)
           ELSE IF ~_is_valid_lat_lng(lat, lng)
           THEN InvalidCoordinates(row, row_tag, address, raw, c)
           ELSE ValidCoordinates(row, row_tag, address, lat, lng, raw, c)

-----------------------------------------------------------------------------
(* main, after the row loop: lines 547-591.                                *)

AccountedRowsWithoutAmbiguous(c) ==
    c.checked_rows + c.invalid_coord_mismatches + c.skipped_missing_address
        + c.skipped_geocode_failure

AccountedRows(c) ==
    c.checked_rows + c.invalid_coord_mismatches + c.skipped_missing_address
        + c.skipped_ambiguous + c.skipped_geocode_failure

DistanceMismatches(c) ==
    IF c.mismatched - c.invalid_coord_mismatches < 0
    THEN 0
    ELSE c.mismatched - c.invalid_coord_mismatches

Summary(c) ==
    [tolerance_meters |-> args.tolerance_meters,
     total_rows |-> c.total_rows,
     checked_rows |-> c.checked_rows,
     matched |-> c.matched,
     mismatched |-> c.mismatched,
     invalid_coord_mismatches |-> c.invalid_coord_mismatches,
     distance_mismatches |-> DistanceMismatches(c),
     skipped_missing_address |-> c.skipped_missing_address,
     skipped_ambiguous |-> c.skipped_ambiguous,
     skipped_geocode_failure |-> c.skipped_geocode_failure,
     cache_file |-> args.cache_file,
     cache_hits |-> c.cache_hits,
     cache_misses |-> c.cache_misses,
     accounted_rows |-> AccountedRows(c)]

\* _save_cache: the file now holds the cache, unless the write failed
_save_cache(written) ==
    IF args.cache_file /\ written
    THEN CacheFile(TRUE, TRUE, TRUE, CACHE_VERSION, TRUE, cache_entries)
    ELSE disk

\* the reader is exhausted, or the loop breaks at --max-rows
Finish(written) ==
    /\ pc = "rows"
    /\ summary' = Some(Summary(cnt))
    /\ disk' = _save_cache(written)
    /\ pc' = "done"
    /\ exit_code' = 0
    /\ UNCHANGED <<args, api_key, header, cache_entries, cnt, mismatches, stderr,
                   network_calls, sleeps, last, puts, cls>>

Next ==
    \/ Startup
    \/ \E row \in Rows, raw \in Responses : ProcessRow(row, raw)
    \/ \E written \in BOOLEAN : Finish(written)

Spec == Init /\ [][Next]_vars

-----------------------------------------------------------------------------
(* The ambiguity classifier on its own: every result of the bounded        *)
(* domain is handed to _ambiguous_reason.                                  *)

MaxResultCount == 2

Statuses == {"OK", "ZERO_RESULTS", "REQUEST_DENIED", "NO_RESULTS"}

LocationTypes ==
    {None, Some(S("")), Some(S("ROOFTOP")), Some(S("rooftop")), Some(S("Rooftop")),
     Some(S("ROOF")), Some(S("APPROXIMATE")), Some(S("RANGE_INTERPOLATED"))}

ClassifierInputs ==
    {GeocodeResult(st, None, Num(40), Num(-74), n, pm, lt, None) :
        st \in Statuses, n \in 0..MaxResultCount, pm \in BOOLEAN, lt \in LocationTypes}

InitClassifier ==
    /\ pc = "classifier"
    /\ exit_code = -1
    /\ args = [tolerance_meters |-> 0, dry_run |-> FALSE, cache_file |-> FALSE,
               sleep_ms |-> 0, max_rows |-> None]
    /\ api_key = TRUE
    /\ header = None
    /\ disk = CacheFile(FALSE, FALSE, FALSE, 0, FALSE, EmptyEntries)
    /\ cache_entries = EmptyEntries
    /\ cnt = ZeroCounters
    /\ mismatches = <<>>
    /\ stderr = <<>>
    /\ network_calls = 0
    /\ sleeps = 0
    /\ summary = None
    /\ last = NoIteration
    /\ puts = {}
    /\ cls \in [arg : ClassifierInputs, ret : {None}, called : {FALSE}]

Classify ==
    /\ pc = "classifier"
    /\ ~cls.called
    /\ cls' = [cls EXCEPT !.ret = _ambiguous_reason(cls.arg), !.called = TRUE]
    /\ UNCHANGED <<pc, exit_code, args, api_key, header, disk, cache_entries, cnt,
                   mismatches, stderr, network_calls, sleeps, summary, last, puts>>

NextClassifier == Classify

SpecClassifier == InitClassifier /\ [][NextClassifier]_vars

-----------------------------------------------------------------------------
(* Vocabulary of the properties, stated on the inputs rather than through  *)
(* the program's own helpers.                                              *)

CellInRange(cell, max) == cell.k = "num" /\ -max <= cell.v /\ cell.v <= max

\* the stored coordinates are present, parsable and within range
StoredCoordinatesValid(row) ==
    CellInRange(row.latitude, 90) /\ CellInRange(row.longitude, 180)

AddressEmpty(row) == \A i \in DOMAIN row.address : row.address[i] \in Whitespace

\* an iteration of the row loop is taking place in this step
RowStep == cnt'.total_rows = cnt.total_rows + 1

RecordedMismatch(reason) ==
    /\ last'.outcome = reason
    /\ cnt'.mismatched = cnt.mismatched + 1
    /\ Len(mismatches') = Len(mismatches) + 1
    /\ SubSeq(mismatches', 1, Len(mismatches)) = mismatches
    /\ mismatches'[Len(mismatches')].row = last'.row

RecordedInvalidCoordinates ==
    /\ RecordedMismatch("Mismatched(InvalidCoordinates)")
    /\ cnt'.invalid_coord_mismatches = cnt.invalid_coord_mismatches + 1
    /\ mismatches'[Len(mismatches')].distance_meters = None

EqualsIgnoringCase(a, b) ==
    /\ Len(a) = Len(b)
    /\ \A i \in DOMAIN a : LowerChar(a[i]) = LowerChar(b[i])

Trustworthy(result) ==
    /\ result.status = "OK"
    /\ result.result_count = 1
    /\ ~result.partial_match
    /\ result.location_type # None
    /\ EqualsIgnoringCase(result.location_type[1], S("ROOFTOP"))

-----------------------------------------------------------------------------
(* C1 *)

\* C1 as stated: every row whose stored coordinates are missing, unparsable
\* or out of range ends as Mismatched(InvalidCoordinates).  It fails for a
\* row whose address is empty: that row is Skipped(MissingAddress).
C1_InvalidCoordinatesAlwaysMismatch ==
    (last.outcome # "" /\ ~StoredCoordinatesValid(last.row))
        => last.outcome = "Mismatched(InvalidCoordinates)"

\* C1, amended: every row with a non-empty address whose stored coordinates
\* are missing, unparsable or out of range ends as
\* Mismatched(InvalidCoordinates): mismatched and invalid_coord_mismatches go
\* up by one and the row is appended to the mismatch output with an empty
\* distance, whatever the lookup returns and whether or not it raises.
C1_InvalidCoordinatesMismatch ==
    [][(RowStep /\ ~AddressEmpty(last'.row) /\ ~StoredCoordinatesValid(last'.row))
           => RecordedInvalidCoordinates]_vars

\* an invalid-coordinate row whose enrichment lookup raised
C1_Witness ==
    /\ last.outcome = "Mismatched(InvalidCoordinates)"
    /\ last.raised
    /\ ~StoredCoordinatesValid(last.row)
    /\ cnt.invalid_coord_mismatches = 1
    /\ Len(mismatches) = 1

-----------------------------------------------------------------------------
(* C2 *)

\* C2 as stated: _ambiguous_reason returns None exactly for the results
\* with status OK, one result, no partial match and a ROOFTOP location
\* type.  It fails for every result whose status is not OK: the classifier
\* returns None for those too.
C2_NullOnlyWhenTrustworthy ==
    cls.called => (cls.ret = None <=> Trustworthy(cls.arg))

\* C2, amended: _ambiguous_reason returns None exactly when the status is
\* not "OK", or the status is "OK" with one result, no partial match and a
\* location type equal to ROOFTOP ignoring case; every other result with
\* status "OK" gets a reason, naming result_count first, then
\* partial_match, then location_type.
C2_NullWhenNotOkOrTrustworthy ==
    cls.called =>
        /\ cls.ret = None <=> (cls.arg.status # "OK" \/ Trustworthy(cls.arg))
        /\ cls.ret = Some("result_count") <=>
              (cls.arg.status = "OK" /\ cls.arg.result_count # 1)
        /\ cls.ret = Some("partial_match") <=>
              (cls.arg.status = "OK" /\ cls.arg.result_count = 1
                  /\ cls.arg.partial_match)

\* a lower-case rooftop result was classified trustworthy
C2_Witness ==
    /\ cls.called
    /\ cls.arg.status = "OK"
    /\ cls.arg.location_type = Some(S("rooftop"))
    /\ cls.arg.result_count = 1
    /\ ~cls.arg.partial_match
    /\ cls.ret = None

-----------------------------------------------------------------------------
(* C3 *)

Max(a, b) == IF a >= b THEN a ELSE b

\* C3: whenever a run prints its summary, accounted_rows is the sum of
\* checked_rows, invalid_coord_mismatches and the three skip counts, and
\* distance_mismatches is max(0, mismatched - invalid_coord_mismatches).
C3_Reconciliation ==
    summary # None =>
        /\ summary[1].accounted_rows =
              summary[1].checked_rows + summary[1].invalid_coord_mismatches
                  + summary[1].skipped_missing_address + summary[1].skipped_ambiguous
                  + summary[1].skipped_geocode_failure
        /\ summary[1].distance_mismatches =
              Max(0, summary[1].mismatched - summary[1].invalid_coord_mismatches)

\* a summary of two rows: one ambiguous skip and one distance mismatch
C3_Witness ==
    /\ summary # None
    /\ summary[1].skipped_ambiguous = 1
    /\ summary[1].distance_mismatches = 1
    /\ summary[1].accounted_rows = 2

-----------------------------------------------------------------------------
(* C4 *)

\* the two addresses differ only in runs of whitespace and in leading or
\* trailing whitespace
SameWords(a, b) == Split(a) = Split(b)

\* C4: once this run has put a result in the cache for an address, a later
\* cache-aware lookup of that address, or of one that differs from it only
\* in whitespace, returns the result that was put, issues no network call,
\* adds one to cache_hits and leaves cache_misses alone.
C4_CacheRoundTrip ==
    [][(RowStep /\ last'.looked_up
            /\ \E p \in puts : SameWords(p.address, last'.row.address))
          => /\ last'.hit
             /\ \E p \in puts : /\ SameWords(p.address, last'.row.address)
                                /\ p.result = last'.result
             /\ network_calls' = network_calls
             /\ cnt'.cache_hits = cnt.cache_hits + 1
             /\ cnt'.cache_misses = cnt.cache_misses]_vars

\* a whitespace variant of an address put earlier in the run was a cache hit
C4_Witness ==
    /\ last.hit
    /\ \E p \in puts : /\ SameWords(p.address, last.row.address)
                       /\ p.address # last.address
                       /\ p.result = last.result
    /\ network_calls = 1
    /\ cnt.cache_hits = 1
    /\ cnt.cache_misses = 1

-----------------------------------------------------------------------------
(* C5 *)

ColumnAbsent(fieldnames, name) ==
    \A i \in DOMAIN fieldnames : ~EqualsIgnoringCase(fieldnames[i], name)

ConfigurationError ==
    \/ args.tolerance_meters < 0
    \/ ~args.dry_run /\ ~api_key
    \/ header = None
    \/ header # None /\ \E i \in DOMAIN RequiredColumns :
                            ColumnAbsent(header[1], RequiredColumns[i])

\* C5: the process exits with 2 on every configuration or validation error
\* (negative tolerance, no header row, missing credential, a required
\* column absent) and with 0 otherwise.
C5_ExitCodes ==
    pc = "done" => exit_code = (IF ConfigurationError THEN 2 ELSE 0)

-----------------------------------------------------------------------------
(* C6 *)

\* the row's id, trimmed, or "?" when that is empty
ExpectedTag(row) == IF Strip(row.id) = <<>> THEN S("?") ELSE Strip(row.id)

ExpectedReason(iteration) ==
    CASE iteration.outcome = "Skipped(MissingAddress)" -> "missing address"
      [] iteration.outcome = "Skipped(AmbiguousResult)" -> "ambiguous"
      [] iteration.outcome = "Skipped(GeocodeFailure)" ->
            IF iteration.raised THEN "geocode request error" ELSE "geocode failed"
      [] iteration.outcome = "Mismatched(InvalidCoordinates)" ->
            "invalid/missing coordinates"
      [] iteration.outcome = "Mismatched(DistanceExceedsTolerance)" ->
            "distance exceeds tolerance"
      [] OTHER -> ""

\* this step printed exactly one line, for the row and outcome of the step
EmitsDiagnostic ==
    /\ Len(stderr') = Len(stderr) + 1
    /\ SubSeq(stderr', 1, Len(stderr)) = stderr
    /\ stderr'[Len(stderr')].tag = ExpectedTag(last'.row)
    /\ stderr'[Len(stderr')].reason = ExpectedReason(last')

Skips ==
    {"Skipped(MissingAddress)", "Skipped(AmbiguousResult)", "Skipped(GeocodeFailure)"}

\* C6 as stated: every Skipped or Mismatched decision prints, in the step
\* that takes it, one line to stderr naming the row and the reason.  It
\* fails for Mismatched(DistanceExceedsTolerance), which prints nothing.
C6_EveryDecisionLogged ==
    [][(RowStep /\ last'.outcome \in Skips \cup {"Mismatched(InvalidCoordinates)",
                                                "Mismatched(DistanceExceedsTolerance)"})
          => EmitsDiagnostic]_vars

\* C6, amended: every Skipped decision and every
\* Mismatched(InvalidCoordinates) decision prints, in the step that takes
\* it, exactly one line to stderr carrying the row's trimmed id ("?" when
\* the id is empty) and the reason; a Mismatched(DistanceExceedsTolerance)
\* decision, like Matched, prints nothing and is recorded in the mismatch
\* output only.
C6_SkipsAndInvalidCoordinatesLogged ==
    [][RowStep =>
          /\ last'.outcome \in Skips \cup {"Mismatched(InvalidCoordinates)"}
                => EmitsDiagnostic
          /\ last'.outcome = "Mismatched(DistanceExceedsTolerance)"
                => stderr' = stderr /\ RecordedMismatch(last'.outcome)
          /\ last'.outcome = "Matched" => stderr' = stderr]_vars

\* an ambiguous row with id 7 was skipped and its line printed
C6_Witness ==
    /\ last.outcome = "Skipped(AmbiguousResult)"
    /\ stderr # <<>>
    /\ stderr[Len(stderr)] = Line(S("7"), "ambiguous", "result_count")

-----------------------------------------------------------------------------
(* C7 *)

\* C7: the delay is applied only after a row whose lookup was a successful
\* live network call, never after a row served from the cache.
C7_DelayOnlyAfterLiveLookup ==
    last.slept => (last.live /\ ~last.raised /\ ~last.hit)

-----------------------------------------------------------------------------
(* C8 *)

\* C8 as stated: a live response with status OK and no results becomes a
\* NO_RESULTS result without coordinates and the row is
\* Skipped(GeocodeFailure).  It fails for a row with invalid stored
\* coordinates, which is Mismatched(InvalidCoordinates).
C8_OkZeroResultsAlwaysSkipped ==
    last.ok_zero =>
        /\ last.result.status = "NO_RESULTS"
        /\ last.outcome = "Skipped(GeocodeFailure)"

\* C8, amended: a response with status OK and no results is rewritten to
\* status NO_RESULTS without coordinates; the row is never matched, checked
\* or a distance mismatch: with valid stored coordinates it is
\* Skipped(GeocodeFailure), with invalid stored coordinates it is
\* Mismatched(InvalidCoordinates) with blank provider coordinates.
C8_OkZeroResultsNeverChecked ==
    [][(RowStep /\ last'.ok_zero) =>
          /\ last'.result.status = "NO_RESULTS"
          /\ last'.result.latitude = NoneN
          /\ last'.result.longitude = NoneN
          /\ last'.result.result_count = 0
          /\ cnt'.checked_rows = cnt.checked_rows
          /\ cnt'.matched = cnt.matched
          /\ IF StoredCoordinatesValid(last'.row)
             THEN /\ last'.outcome = "Skipped(GeocodeFailure)"
                  /\ cnt'.skipped_geocode_failure = cnt.skipped_geocode_failure + 1
                  /\ mismatches' = mismatches
             ELSE /\ RecordedInvalidCoordinates
                  /\ mismatches'[Len(mismatches')].google_latitude = NoneN
                  /\ mismatches'[Len(mismatches')].google_longitude = NoneN]_vars

\* a row with valid stored coordinates got OK with no results
C8_Witness ==
    /\ last.ok_zero
    /\ StoredCoordinatesValid(last.row)
    /\ last.result.status = "NO_RESULTS"
    /\ last.outcome = "Skipped(GeocodeFailure)"
    /\ cnt.skipped_geocode_failure = 1

-----------------------------------------------------------------------------
(* C9 *)

\* C9: for a row with a non-empty address and valid stored coordinates, a
\* lookup that raises makes the row Skipped(GeocodeFailure): one call was
\* issued and none repeated, checked_rows is unchanged, the cache is
\* untouched, and the loop goes on to the next row; a run that ends after
\* such a row ends with its summary and exit status 0.
C9_LookupFailureSkipsRow ==
    /\ [][(RowStep /\ last'.raised /\ ~AddressEmpty(last'.row)
              /\ StoredCoordinatesValid(last'.row))
            => /\ last'.outcome = "Skipped(GeocodeFailure)"
               /\ cnt'.skipped_geocode_failure = cnt.skipped_geocode_failure + 1
               /\ cnt'.checked_rows = cnt.checked_rows
               /\ cnt'.matched = cnt.matched
               /\ cnt'.mismatched = cnt.mismatched
               /\ network_calls' = network_calls + 1
               /\ cache_entries' = cache_entries
               /\ pc' = "rows"
               /\ exit_code' = -1]_vars
    /\ []((pc = "done" /\ last.raised) => (summary # None /\ exit_code = 0))

\* the first row's lookup raised, a second row was processed, the run ended
C9_Witness ==
    /\ pc = "done"
    /\ summary # None
    /\ cnt.total_rows = 2
    /\ Len(stderr) >= 1
    /\ stderr[1].reason = "geocode request error"
    /\ cnt.skipped_geocode_failure >= 1
    /\ cnt.checked_rows = 1

-----------------------------------------------------------------------------
(* C10 *)

EntryMalformed(entry) ==
    \/ ~entry.is_dict
    \/ entry.result_count.t # "num"
    \/ entry.latitude.t = "str"
    \/ entry.longitude.t = "str"

\* the file is absent, unparsable, of another version or of malformed shape
CorruptCacheFile(file) ==
    \/ ~file.exists
    \/ ~file.parsable
    \/ ~file.is_dict
    \/ file.version # 1
    \/ ~file.entries_is_dict
    \/ \E k \in DOMAIN file.entries : EntryMalformed(file.entries[k])

\* C10: a run started with a cache file that is absent, unparsable, of the
\* wrong version or of malformed shape is never stopped by it.
C10_CorruptCacheNeverBlocks ==
    (args.cache_file /\ pc # "done" /\ CorruptCacheFile(disk)) => pc # "crashed"

\* For the files _load_cache itself rejects the claim holds: the run starts
\* from an empty cache and cannot crash.
C10_RejectedFilesLoadEmpty ==
    (args.cache_file /\ pc = "rows" /\ cnt.total_rows = 0
        /\ (~disk.exists \/ ~disk.parsable \/ ~disk.is_dict \/ disk.version # 1
               \/ ~disk.entries_is_dict))
      => cache_entries = EmptyEntries

-----------------------------------------------------------------------------
(* C11 *)

\* C11: between iterations of the row loop and at the end of the run,
\* every row seen is counted in exactly one outcome: total_rows is the sum
\* of matched, mismatched and the three skip counts; checked_rows is
\* matched plus the distance mismatches; mismatched is never below
\* invalid_coord_mismatches; and a printed summary has accounted_rows equal
\* to total_rows and distance_mismatches equal to
\* mismatched - invalid_coord_mismatches, the floor at zero never taken.
C11_RowPartition ==
    /\ pc \in {"rows", "done"} =>
          /\ cnt.total_rows = cnt.matched + cnt.mismatched
                                 + cnt.skipped_missing_address
                                 + cnt.skipped_ambiguous
                                 + cnt.skipped_geocode_failure
          /\ cnt.checked_rows = cnt.matched
                                   + (cnt.mismatched - cnt.invalid_coord_mismatches)
          /\ cnt.mismatched >= cnt.invalid_coord_mismatches
    /\ summary # None =>
          /\ summary[1].accounted_rows = summary[1].total_rows
          /\ summary[1].total_rows = cnt.total_rows
          /\ summary[1].distance_mismatches =
                summary[1].mismatched - summary[1].invalid_coord_mismatches

\* a finished run of two rows: one missing address, one invalid coordinates
C11_Witness ==
    /\ pc = "done"
    /\ summary # None
    /\ cnt.total_rows = 2
    /\ cnt.skipped_missing_address = 1
    /\ cnt.invalid_coord_mismatches = 1
    /\ cnt.mismatched = 1

====
